---- MODULE Spec2Model ----
(***************************************************************************)
(* A model of the sloppy-group prototype of kostko/unisphere:              *)
(*   src/tools/prototyping/topologies.py      (node attributes)            *)
(*   src/tools/prototyping/landmark_route.py  (test01_random_routes)       *)
(*                                                                         *)
(* The prototype is one sequential function.  Its phases are modelled as   *)
(* separate specifications over the same variables:                        *)
(*   SpecGossip      name dissemination (lines 219-246) and verification   *)
(*                   (lines 250-273) over an overlay graph                 *)
(*   SpecGossipFair  the same with weak fairness (a running program keeps  *)
(*                   executing its loop)                                   *)
(*   SpecVerify      the same for nodes whose population estimates, and    *)
(*                   hence group_bits, differ (n_err > 0)                  *)
(*   SpecCn          the color-neighbor traversal of one node (lines       *)
(*                   63-83)                                                *)
(*   SpecOffer       the loop body of that traversal (lines 68-83) on a    *)
(*                   given list of candidates                              *)
(*   SpecOverlay     the groups phase (lines 111-182): local views and     *)
(*                   add_group_link                                        *)
(*   SpecFanout      the same for nodes whose estimates, and hence         *)
(*                   sg_degree, differ (n_err > 0)                         *)
(*   SpecAdmission   the same on one group with a small sg_degree, so      *)
(*                   that targets fill up and evict                        *)
(*   SpecWalk        the random walks of one node (lines 141-165) and the  *)
(*                   links that follow them (lines 180-194)                *)
(*   SpecWalkFair    the same with weak fairness                           *)
(*   SpecVicinity    the vicinity construction of one node (lines 89-109)  *)
(*                                                                         *)
(* Nodes are numbered 1..n in the order of trust_topology.nodes(): every   *)
(* "for node, data in trust_topology.nodes(data=True)" loop visits them in *)
(* increasing number.  Since Init ranges over every labelled graph and     *)
(* every assignment of attributes, every iteration order is covered.       *)
(***************************************************************************)
EXTENDS Integers, Sequences, FiniteSets, TLC

\* ------------------------------------------------------------------ bounds
\* number of nodes in the gossip specifications
MaxNodes == 3
\* number of nodes when population estimates differ per node
MaxVerifyNodes == 2
\* largest population estimate n_hat (the capacity tables below cover 2..12)
MaxNHat == 9
\* cap on the round counter `it` (the loop itself has none)
MaxRounds == 6
\* number of nodes of the trust graph in the color-neighbor specification
MaxCnNodes == 4
\* length of a given candidate list, and the largest hop count in it
MaxOffers == 5
MaxHops == 3
\* number of nodes in the overlay-builder specification
MaxOverlayNodes == 3
\* number of nodes in the random-walk specification
MaxWalkNodes == 4
\* number of nodes in the vicinity specification
MaxVicinityNodes == 4
\* number of nodes in the overlay-builder specification with differing estimates
MaxFanoutNodes == 2
\* number of nodes in the overlay-builder specification with full targets
MaxAdmissionNodes == 3

\* -------------------------------------------------------- node attributes
\* int(math.log(n_hat)) for 2 <= n_hat <= 54 (e = 2.71.., e^2 = 7.38.., e^3 = 20.08..)
IntLog(nh) ==
  IF nh < 3 THEN 0 ELSE IF nh < 8 THEN 1 ELSE IF nh < 21 THEN 2 ELSE 3

\* data['sg_degree'] = int(math.log(n_hat))
SgDegree(nh) == IntLog(nh)

\* data['cn_size'] = int(math.log(n_hat))
CnSize(nh) == IntLog(nh)

\* data['vicinity_size'] = int(math.sqrt(n_hat * math.log(n_hat))), n_hat = 1..12
VicinitySize(nh) == <<0, 1, 1, 2, 2, 3, 3, 4, 4, 4, 5, 5>>[nh]

\* data['group_bits'] = len(nid[:int(floor(log2(sqrt(n_hat / log(n_hat)))))]),
\* for 2 <= n_hat <= 64
GroupBits(nh) == IF nh < 9 THEN 0 ELSE 1

\* valid population estimates (n_hat > 1)
NHats == 2..MaxNHat

\* smallest estimate with cn_size >= 1: with cn_size = 0 the color-neighbor
\* loop fails on its first candidate, so later phases only see these
MinNHat == CHOOSE nh \in NHats : CnSize(nh) >= 1 /\ \A m \in NHats : m < nh => CnSize(m) = 0

\* a name is modelled by the leading bits of the 160-bit identifier that the
\* program can read: the longest group prefix any estimate produces
NameBits == GroupBits(MaxNHat)

Names == [1..NameBits -> {0, 1}]

Min(a, b) == IF a < b THEN a ELSE b

\* Python s[:k]
Prefix(s, k) == SubSeq(s, 1, Min(k, Len(s)))

\* Python s.startswith(p)
StartsWith(s, p) == Len(p) <= Len(s) /\ SubSeq(s, 1, Len(p)) = p

VARIABLES
  nodes,          \* trust_topology.nodes(), numbered in iteration order
  trust_topology, \* the trust graph's edges, each a set of two nodes
  name,           \* data['name'] (leading bits)
  nhat,           \* n_hat drawn for the node in generate_topology
  sybil,          \* data['sybil']
  cur,            \* `node` of the loop in progress (line 55 or line 114)
  buckets,        \* color_neighbors[cur]: prefix -> list of <<hops, neighbor>>
  bfs_queue,      \* nx.bfs_edges: the queue of parents
  bfs_visited,    \* nx.bfs_edges: the visited set
  offers,         \* a given candidate list <<hops, neighbor>> (SpecOffer)
  oi,             \* number of candidates of `offers` processed
  vicinity_graph, \* vicinity_graph.neighbors(cur) (each edge carries its hops)
  vc,             \* the vicinity counter
  vqueue,         \* the vicinity queue (shuffled before every pop)
  vvisited,       \* the vicinity construction's visited set
  vic_node,       \* vnode of line 96, the node popped from the queue
  group_graph,    \* the overlay: (src, dst) -> [hops, backlink]
  todo,           \* nodes of the shuffled list of line 113 not yet processed
  local_view,     \* local_view of the node being processed
  li,             \* number of entries of local_view already linked
  views,          \* for each processed node, the nodes of its local view
  discovered_set, \* discovered_set of the node being processed
  walk_length,    \* walk_length of the node being processed
  walks,          \* number of random walks started for the node
  wnode,          \* the walk's current node
  wvisited,       \* the walk's visited set
  whops,          \* the walk's hop counter
  foreign_view,   \* foreign_view of the node being processed
  records,        \* records[node]
  it,             \* round counter
  convergence,    \* the round's convergence flag
  idx,            \* position of the node loop (gossip round or verification)
  lines,          \* mismatch lines printed by the verification
  pc              \* position in test01_random_routes

inputVars == <<nodes, trust_topology, name, nhat, sybil>>
cnVars == <<cur, buckets, bfs_queue, bfs_visited, offers, oi>>
walkVars == <<discovered_set, walk_length, walks, wnode, wvisited, whops, foreign_view>>
overlayVars == <<group_graph, todo, local_view, li, views, walkVars>>
gossipVars == <<records, it, convergence, idx, lines>>
vicinityVars == <<vicinity_graph, vc, vqueue, vvisited, vic_node>>
vars == <<inputVars, cnVars, vicinityVars, overlayVars, gossipVars, pc>>

\* data['group'] = nid[:group_bits]
Group(v) == Prefix(name[v], GroupBits(nhat[v]))

\* group_graph.successors(node)
Successors(u) == {w \in nodes : <<u, w>> \in DOMAIN group_graph}

\* -------------------------------------------------------- color neighbors
\* trust_topology.neighbors(v)
Neighbors(v) == {w \in nodes : {v, w} \in trust_topology}

RECURSIVE LevelDist(_, _, _, _)
LevelDist(frontier, seen, d, b) ==
  IF b \in frontier THEN d
  ELSE IF frontier = {} THEN -1
  ELSE LET nxt == {w \in nodes \ seen : \E f \in frontier : {f, w} \in trust_topology}
       IN LevelDist(nxt, seen \cup nxt, d + 1, b)

\* nx.shortest_path_length(trust_topology, a, b)
Dist(a, b) == LevelDist({a}, {a}, 0, b)

\* Python's order on the tuples (hops, neighbor)
TupleLess(a, b) == a[1] < b[1] \/ (a[1] = b[1] /\ a[2] < b[2])

\* bucket.sort()
Sorted(bucket) == SortSeq(bucket, TupleLess)

OfferOffByOne(bucket, cn_size, hops, neighbor, coin) ==
  IF Len(bucket) <= cn_size
    THEN [bucket |-> Append(bucket, <<hops, neighbor>>), outcome |-> "append"]
    ELSE LET sorted == Sorted(bucket)
             last == sorted[Len(sorted)]
         IN IF last[1] > hops \/ (last[1] = hops /\ coin)
              THEN [bucket |-> Append(SubSeq(sorted, 1, Len(sorted) - 1), <<hops, neighbor>>),
                    outcome |-> "replace"]
            ELSE IF last[1] < hops
              THEN [bucket |-> sorted, outcome |-> "break"]
            ELSE [bucket |-> sorted, outcome |-> "keep"]

OfferReplacesNearer(bucket, cn_size, hops, neighbor, coin) ==
  IF Len(bucket) < cn_size
    THEN [bucket |-> Append(bucket, <<hops, neighbor>>), outcome |-> "append"]
    ELSE LET sorted == Sorted(bucket)
             last == sorted[Len(sorted)]
         IN IF sorted = <<>>
              THEN [bucket |-> sorted, outcome |-> "index_error"]
            ELSE IF last[1] < hops \/ (last[1] = hops /\ coin)
              THEN [bucket |-> Append(SubSeq(sorted, 1, Len(sorted) - 1), <<hops, neighbor>>),
                    outcome |-> "replace"]
            ELSE IF last[1] > hops
              THEN [bucket |-> sorted, outcome |-> "break"]
            ELSE [bucket |-> sorted, outcome |-> "keep"]

OfferNoBreak(bucket, cn_size, hops, neighbor, coin) ==
  IF Len(bucket) < cn_size
    THEN [bucket |-> Append(bucket, <<hops, neighbor>>), outcome |-> "append"]
    ELSE LET sorted == Sorted(bucket)
             last == sorted[Len(sorted)]
         IN IF sorted = <<>>
              THEN [bucket |-> sorted, outcome |-> "index_error"]
            ELSE IF last[1] > hops \/ (last[1] = hops /\ coin)
              THEN [bucket |-> Append(SubSeq(sorted, 1, Len(sorted) - 1), <<hops, neighbor>>),
                    outcome |-> "replace"]
            ELSE [bucket |-> sorted, outcome |-> "keep"]

\* lines 72-83: the candidate (hops, neighbor) is offered to its bucket;
\* coin is the outcome of random.random() < 0.5.  bucket[-1] of an empty
\* list raises IndexError.
Offer(bucket, cn_size, hops, neighbor, coin) ==
  IF Len(bucket) < cn_size
    THEN [bucket |-> Append(bucket, <<hops, neighbor>>), outcome |-> "append"]
    ELSE LET sorted == Sorted(bucket)
             last == sorted[Len(sorted)]
         IN IF sorted = <<>>
              THEN [bucket |-> sorted, outcome |-> "index_error"]
            ELSE IF last[1] > hops \/ (last[1] = hops /\ coin)
              THEN [bucket |-> Append(SubSeq(sorted, 1, Len(sorted) - 1), <<hops, neighbor>>),
                    outcome |-> "replace"]
            ELSE IF last[1] < hops
              THEN [bucket |-> sorted, outcome |-> "break"]
            ELSE [bucket |-> sorted, outcome |-> "keep"]

\* line 69: the bucket key of a candidate, nd['name'][:data['group_bits']]
BucketKey(neighbor) == Prefix(name[neighbor], GroupBits(nhat[cur]))

\* the keys buckets.setdefault can create for a node with estimate nh
BucketKeys(nh) == {Prefix(nm, GroupBits(nh)) : nm \in Names}

\* where the loop of line 67 goes after a candidate
AfterOffer(outcome) ==
  CASE outcome = "break" -> "cn_done"
    [] outcome = "index_error" -> "index_error"
    [] OTHER -> "color_neighbors"

\* nx.bfs_edges: parents whose neighbors are all visited leave the queue
RECURSIVE DropExhausted(_)
DropExhausted(q) ==
  IF q = <<>> THEN q
  ELSE IF Neighbors(Head(q)) \subseteq bfs_visited THEN DropExhausted(Tail(q))
  ELSE q

\* lines 67-83: the next edge of nx.bfs_edges(trust_topology, cur) is taken
\* (the first queued parent with an unvisited neighbor yields one of them,
\* in the order of its adjacency dict) and its end is offered to its bucket
CnVisit ==
  /\ pc = "color_neighbors"
  /\ LET q == DropExhausted(bfs_queue)
     IN /\ q # <<>>
        /\ \E neighbor \in Neighbors(Head(q)) \ bfs_visited, coin \in BOOLEAN :
             LET key == BucketKey(neighbor)
                 r == Offer(buckets[key], CnSize(nhat[cur]), Dist(cur, neighbor), neighbor, coin)
             IN /\ buckets' = [buckets EXCEPT ![key] = r.bucket]
                /\ bfs_visited' = bfs_visited \cup {neighbor}
                /\ bfs_queue' = Append(q, neighbor)
                /\ pc' = AfterOffer(r.outcome)
  /\ UNCHANGED <<inputVars, vicinityVars, cur, offers, oi, overlayVars, gossipVars>>

\* line 67: nx.bfs_edges is exhausted
CnEnd ==
  /\ pc = "color_neighbors"
  /\ DropExhausted(bfs_queue) = <<>>
  /\ bfs_queue' = <<>>
  /\ pc' = "cn_done"
  /\ UNCHANGED <<inputVars, vicinityVars, cur, buckets, bfs_visited, offers, oi, overlayVars, gossipVars>>

\* lines 68-83 for the next candidate of a given list
OfferNext ==
  /\ pc = "color_neighbors"
  /\ oi < Len(offers)
  /\ \E coin \in BOOLEAN :
       LET hops == offers[oi + 1][1]
           neighbor == offers[oi + 1][2]
           key == BucketKey(neighbor)
           r == Offer(buckets[key], CnSize(nhat[cur]), hops, neighbor, coin)
       IN /\ buckets' = [buckets EXCEPT ![key] = r.bucket]
          /\ pc' = AfterOffer(r.outcome)
  /\ oi' = oi + 1
  /\ UNCHANGED <<inputVars, vicinityVars, cur, bfs_queue, bfs_visited, offers, overlayVars, gossipVars>>

\* the given list is exhausted
OfferEnd ==
  /\ pc = "color_neighbors"
  /\ oi = Len(offers)
  /\ pc' = "cn_done"
  /\ UNCHANGED <<inputVars, vicinityVars, cnVars, overlayVars, gossipVars>>

\* unordered pairs of distinct nodes
Links(S) == {l \in SUBSET S : Cardinality(l) = 2}

\* whether the undirected graph (S, E) is connected
RECURSIVE Reach(_, _, _)
Reach(E, S, seen) ==
  LET nxt == seen \cup {w \in S : \E v \in seen : {v, w} \in E}
  IN IF nxt = seen THEN seen ELSE Reach(E, S, nxt)

\* trust graphs over S: communities are connected Watts-Strogatz graphs
\* joined by inter-community edges
TrustGraphs(S) == {E \in SUBSET Links(S) : Reach(E, S, {CHOOSE v \in S : TRUE}) = S}

\* ----------------------------------------------------------------- vicinity
VicinityFullLate(count, size) == count > size

\* lines 94 and 106: the vicinity has reached its size
VicinityFull(count, size) == count >= size

\* lines 94-97: a node is popped from the shuffled queue
VicinityPop ==
  /\ pc = "vicinity"
  /\ vqueue # {}
  /\ ~VicinityFull(vc, VicinitySize(nhat[cur]))
  /\ \E popped \in vqueue :
       /\ vic_node' = popped
       /\ vqueue' = vqueue \ {popped}
       /\ vvisited' = vvisited \cup {popped}
  /\ pc' = "vicinity_scan"
  /\ UNCHANGED <<inputVars, cnVars, vicinity_graph, vc, overlayVars, gossipVars>>

\* lines 99-109: the next neighbor of the popped node that is not visited
\* (in the order of its adjacency dict) enters the vicinity
VicinityScan ==
  /\ pc = "vicinity_scan"
  /\ \E neighbor \in Neighbors(vic_node) \ vvisited :
       /\ vvisited' = vvisited \cup {neighbor}
       /\ vicinity_graph' = vicinity_graph \cup {neighbor}
       /\ vc' = vc + 1
       /\ IF VicinityFull(vc + 1, VicinitySize(nhat[cur]))
            THEN vqueue' = vqueue /\ pc' = "vicinity"
            ELSE vqueue' = vqueue \cup {neighbor} /\ pc' = "vicinity_scan"
  /\ UNCHANGED <<inputVars, cnVars, vic_node, overlayVars, gossipVars>>

\* line 99: every neighbor of the popped node is visited
VicinityScanEnd ==
  /\ pc = "vicinity_scan"
  /\ Neighbors(vic_node) \ vvisited = {}
  /\ pc' = "vicinity"
  /\ UNCHANGED <<inputVars, cnVars, vicinityVars, overlayVars, gossipVars>>

\* line 94: the queue is empty or the vicinity is full
VicinityEnd ==
  /\ pc = "vicinity"
  /\ vqueue = {} \/ VicinityFull(vc, VicinitySize(nhat[cur]))
  /\ pc' = "vicinity_done"
  /\ UNCHANGED <<inputVars, cnVars, vicinityVars, overlayVars, gossipVars>>

\* ---------------------------------------------------------- overlay builder
\* the same-group test of lines 125 and 152
SameGroup(v, w) == StartsWith(name[w], Group(v))

Range(q) == {q[i] : i \in 1..Len(q)}

\* the orders in which a dict or a list can hold the elements of S
Perms(S) == {q \in [1..Cardinality(S) -> S] : \A i, j \in 1..Cardinality(S) : i # j => q[i] # q[j]}

\* vicinity_graph.neighbors(v) as lines 91-109 leave it: vicinity_size nodes
\* (every other node when there are fewer), each a trust neighbor of v or of
\* a node added before it
VicinitySets(v) ==
  {S \in SUBSET (nodes \ {v}) :
     /\ Cardinality(S) = Min(VicinitySize(nhat[v]), Cardinality(nodes) - 1)
     /\ Reach(trust_topology, S \cup {v}, {v}) = S \cup {v}}

\* color_neighbors[v].get(data['group'], []) as lines 63-83 leave it: at most
\* cn_size nodes of v's prefix, none of them farther than one left out; the
\* bucket is short of same-prefix nodes only if the loop broke on another
\* bucket, which needs more than cn_size nodes of other prefixes
GroupBuckets(v) ==
  LET same == {w \in nodes \ {v} : SameGroup(v, w)}
      other == nodes \ ({v} \cup same)
      cn_size == CnSize(nhat[v])
      sets == {B \in SUBSET same :
                 /\ Cardinality(B) <= cn_size
                 /\ \A x \in B, y \in same \ B : Dist(v, x) <= Dist(v, y)
                 /\ \/ Cardinality(B) = Min(cn_size, Cardinality(same))
                    \/ Cardinality(other) > cn_size}
  IN UNION {Perms(B) : B \in sets}

LocalViewUnfiltered(node, vicinity, bucket) ==
  LET near == SelectSeq(vicinity, LAMBDA vnode : SameGroup(node, vnode))
      view == near \o bucket
  IN [i \in 1..Len(view) |-> <<Dist(node, view[i]), view[i]>>]

\* lines 116-139: the vicinity entries of the node's group, then the entries
\* of its own color bucket that are not among them
LocalView(node, vicinity, bucket) ==
  LET near == SelectSeq(vicinity, LAMBDA vnode : SameGroup(node, vnode))
      discovered == {node} \cup Range(near)
      far == SelectSeq(bucket, LAMBDA vnode : vnode \notin discovered)
      view == near \o far
  IN [i \in 1..Len(view) |-> <<Dist(node, view[i]), view[i]>>]

\* group_graph.add_edge(a, b, **attrs): the attributes of an existing edge
\* are replaced
AddEdge(g, a, b, attrs) ==
  [e \in DOMAIN g \cup {<<a, b>>} |-> IF e = <<a, b>> THEN attrs ELSE g[e]]

\* group_graph.remove_edge(a, b)
RemoveEdge(g, a, b) == [e \in DOMAIN g \ {<<a, b>>} |-> g[e]]

OutgoingAll(g, vnode) == {e \in DOMAIN g : e[1] = vnode}

\* line 172: the edges out of vnode that carry backlink = True
Outgoing(g, vnode) == {e \in DOMAIN g : e[1] = vnode /\ g[e].backlink}

\* lines 173 and 176-177: outgoing[-1] after outgoing.sort()
LastOutgoing(g, vnode) ==
  CHOOSE e \in Outgoing(g, vnode) :
    \A f \in Outgoing(g, vnode) : f = e \/ TupleLess(<<g[f].hops, f[2]>>, <<g[e].hops, e[2]>>)

AddGroupLinkEvictsTies(g, sg_degree, node, vnode, hops) ==
  LET g1 == AddEdge(g, node, vnode, [hops |-> hops, backlink |-> FALSE])
      back == [hops |-> hops, backlink |-> TRUE]
  IN IF Cardinality(Outgoing(g1, vnode)) < sg_degree * sg_degree
       THEN [graph |-> AddEdge(g1, vnode, node, back), outcome |-> "admit"]
     ELSE IF Outgoing(g1, vnode) = {}
       THEN [graph |-> g1, outcome |-> "index_error"]
     ELSE IF hops <= g1[LastOutgoing(g1, vnode)].hops
       THEN [graph |-> AddEdge(RemoveEdge(g1, vnode, LastOutgoing(g1, vnode)[2]), vnode, node, back),
             outcome |-> "evict"]
     ELSE [graph |-> g1, outcome |-> "skip"]

AddGroupLinkOffByOne(g, sg_degree, node, vnode, hops) ==
  LET g1 == AddEdge(g, node, vnode, [hops |-> hops, backlink |-> FALSE])
      back == [hops |-> hops, backlink |-> TRUE]
  IN IF Cardinality(Outgoing(g1, vnode)) <= sg_degree * sg_degree
       THEN [graph |-> AddEdge(g1, vnode, node, back), outcome |-> "admit"]
     ELSE IF hops < g1[LastOutgoing(g1, vnode)].hops
       THEN [graph |-> AddEdge(RemoveEdge(g1, vnode, LastOutgoing(g1, vnode)[2]), vnode, node, back),
             outcome |-> "evict"]
     ELSE [graph |-> g1, outcome |-> "skip"]

\* lines 167-178: add_group_link(node, vnode, hops); sg_degree is
\* data['sg_degree'] of the closure, the attribute of the node of line 114.
\* outgoing[-1] of an empty list raises IndexError.
add_group_link(g, sg_degree, node, vnode, hops) ==
  LET g1 == AddEdge(g, node, vnode, [hops |-> hops, backlink |-> FALSE])
      back == [hops |-> hops, backlink |-> TRUE]
  IN IF Cardinality(Outgoing(g1, vnode)) < sg_degree * sg_degree
       THEN [graph |-> AddEdge(g1, vnode, node, back), outcome |-> "admit"]
     ELSE IF Outgoing(g1, vnode) = {}
       THEN [graph |-> g1, outcome |-> "index_error"]
     ELSE IF hops < g1[LastOutgoing(g1, vnode)].hops
       THEN [graph |-> AddEdge(RemoveEdge(g1, vnode, LastOutgoing(g1, vnode)[2]), vnode, node, back),
             outcome |-> "evict"]
     ELSE [graph |-> g1, outcome |-> "skip"]

\* lines 114-139: the next node of the shuffled list and its local view,
\* from the vicinity and the color bucket the proximity index holds for it
GroupsNode ==
  /\ pc = "groups"
  /\ li = Len(local_view)
  /\ \E node \in todo :
       \E S \in VicinitySets(node), bucket \in GroupBuckets(node) :
       \E vicinity \in Perms(S) :
         /\ cur' = node
         /\ todo' = todo \ {node}
         /\ local_view' = LocalView(node, vicinity, bucket)
         /\ views' = [views EXCEPT ![node] = {e[2] : e \in Range(LocalView(node, vicinity, bucket))}]
  /\ li' = 0
  /\ UNCHANGED <<inputVars, vicinityVars, buckets, bfs_queue, bfs_visited, offers, oi, group_graph, walkVars, gossipVars, pc>>

\* lines 181-182: add_group_link for the next entry of the local view
GroupLink ==
  /\ pc = "groups"
  /\ li < Len(local_view)
  /\ LET hops == local_view[li + 1][1]
         vnode == local_view[li + 1][2]
         r == add_group_link(group_graph, SgDegree(nhat[cur]), cur, vnode, hops)
     IN /\ group_graph' = r.graph
        /\ pc' = IF r.outcome = "index_error" THEN "index_error" ELSE "groups"
  /\ li' = li + 1
  /\ UNCHANGED <<inputVars, vicinityVars, cnVars, todo, local_view, views, walkVars, gossipVars>>

\* line 114: the shuffled list is exhausted
GroupsEnd ==
  /\ pc = "groups"
  /\ li = Len(local_view)
  /\ todo = {}
  /\ pc' = "groups_done"
  /\ UNCHANGED <<inputVars, vicinityVars, cnVars, overlayVars, gossipVars>>

\* ------------------------------------------------------------ random walks
\* lines 116-131: max_hop_count, the largest hop count among the vicinity
\* entries of the node's group
MaxHopCount(node, vicinity) ==
  LET near == {vnode \in Range(vicinity) : SameGroup(node, vnode)}
      hops == {Dist(node, vnode) : vnode \in near}
  IN IF near = {} THEN 0 ELSE CHOOSE h \in hops : \A g \in hops : g <= h

\* line 143: int(round(1.5 * max_hop_count)); Python 2 rounds a half away
\* from zero
WalkLength(max_hop_count) == (3 * max_hop_count + 1) \div 2

\* line 149: the condition of the walk's while-loop
WalkGoesOn(hops, length) == hops < length

UnvisitedAny(node, visited) == Neighbors(node)

\* lines 158 and 162-165: the neighbors the walk can move to
Unvisited(node, visited) == Neighbors(node) \ visited

\* lines 145-148: the next walk starts at the node being processed
WalkStart ==
  /\ pc = "walk"
  /\ walks < SgDegree(nhat[cur])
  /\ walks' = walks + 1
  /\ wvisited' = {}
  /\ wnode' = cur
  /\ whops' = 0
  /\ pc' = "walking"
  /\ UNCHANGED <<inputVars, vicinityVars, cnVars, group_graph, todo, local_view, li, views,
                 discovered_set, walk_length, foreign_view, gossipVars>>

\* lines 149-165: one pass of the walk's while-loop: the current node is
\* visited and examined, then the walk stops (line 159) or moves to a
\* neighbor drawn until it is an unvisited one (lines 162-165)
WalkStep ==
  /\ pc = "walking"
  /\ WalkGoesOn(whops, walk_length)
  /\ wvisited' = wvisited \cup {wnode}
  /\ IF SameGroup(cur, wnode) /\ wnode \notin discovered_set
       THEN /\ foreign_view' = Append(foreign_view, <<Dist(cur, wnode), wnode>>)
            /\ discovered_set' = discovered_set \cup {wnode}
       ELSE UNCHANGED <<foreign_view, discovered_set>>
  /\ IF Unvisited(wnode, wvisited \cup {wnode}) = {}
       THEN wnode' = wnode /\ pc' = "walk"
       ELSE /\ wnode' \in Unvisited(wnode, wvisited \cup {wnode})
            /\ pc' = "walking"
  /\ UNCHANGED <<inputVars, vicinityVars, cnVars, group_graph, todo, local_view, li, views,
                 walk_length, walks, whops, gossipVars>>

\* line 149: the while-loop's condition is false
WalkOver ==
  /\ pc = "walking"
  /\ ~WalkGoesOn(whops, walk_length)
  /\ pc' = "walk"
  /\ UNCHANGED <<inputVars, vicinityVars, cnVars, overlayVars, gossipVars>>

\* line 145: every walk is made; the loop of line 181 comes next
WalksEnd ==
  /\ pc = "walk"
  /\ walks = SgDegree(nhat[cur])
  /\ pc' = "groups"
  /\ UNCHANGED <<inputVars, vicinityVars, cnVars, overlayVars, gossipVars>>

SelectsFarAlways(view) == view # <<>>

\* line 185: whether far away neighbors are selected
SelectsFar(view) == view # <<>> /\ FALSE

\* lines 187-191 on a shuffled foreign view: long_neighbors[hops] = vnode
\* for its entries in turn, until sg_degree keys are set
RECURSIVE LongNeighbors(_, _, _)
LongNeighbors(view, sg_degree, chosen) ==
  IF view = <<>> THEN chosen
  ELSE LET hops == Head(view)[1]
           put == {e \in chosen : e[1] # hops} \cup {Head(view)}
       IN IF Cardinality(put) >= sg_degree THEN put
          ELSE LongNeighbors(Tail(view), sg_degree, put)

\* lines 193-194: add_group_link for every item of long_neighbors
RECURSIVE LinkAll(_, _, _, _)
LinkAll(g, sg_degree, node, chosen) ==
  IF chosen = {} THEN g
  ELSE LET e == CHOOSE x \in chosen : \A y \in chosen : x = y \/ TupleLess(x, y)
       IN LinkAll(add_group_link(g, sg_degree, node, e[2], e[1]).graph,
                  sg_degree, node, chosen \ {e})

\* lines 184-194, after the last call of line 182
FarNeighbors ==
  /\ pc = "groups"
  /\ li = Len(local_view)
  /\ IF SelectsFar(foreign_view)
       THEN \E shuffled \in Perms(Range(foreign_view)) :
              group_graph' = LinkAll(group_graph, SgDegree(nhat[cur]), cur,
                                     LongNeighbors(shuffled, SgDegree(nhat[cur]), {}))
       ELSE group_graph' = group_graph
  /\ pc' = "node_done"
  /\ UNCHANGED <<inputVars, vicinityVars, cnVars, todo, local_view, li, views, walkVars, gossipVars>>

\* ---------------------------------------------------------------- gossip
SkipsNever(u, w) == FALSE

SkipsAllHonest(u, w) == sybil[w] \/ ~sybil[u]

SkipsAcross(u, w) == sybil[w] # sybil[u]

\* line 237: the propagator u does not forward to its successor w
Skips(u, w) == sybil[w] /\ ~sybil[u]

PropagateOverwrite(recs, u) ==
  [w \in nodes |-> IF w \in Successors(u) /\ ~Skips(u, w) THEN recs[u] ELSE recs[w]]

\* lines 234-243 for one node u: every record of u is added to the record
\* set of every successor that is not skipped
Propagate(recs, u) ==
  [w \in nodes |-> IF w \in Successors(u) /\ ~Skips(u, w)
                     THEN recs[w] \cup recs[u] ELSE recs[w]]

LearnsAlways(recs, u) == Successors(u) # {}

\* lines 241-242: some forwarded record was not yet in the successor's set
Learns(recs, u) == Propagate(recs, u) # recs

ExitsAlways(conv) == TRUE

\* lines 245-246
Exits(conv) == conv

\* lines 229-231: a round begins
RoundStart ==
  /\ pc = "round"
  /\ it < MaxRounds
  /\ it' = it + 1
  /\ convergence' = TRUE
  /\ idx' = 1
  /\ pc' = "nodes"
  /\ UNCHANGED <<inputVars, vicinityVars, cnVars, overlayVars, records, lines>>

\* lines 232-243: the round's loop body for the next node
GossipNode ==
  /\ pc = "nodes"
  /\ idx \in nodes
  /\ records' = Propagate(records, idx)
  /\ convergence' = (convergence /\ ~Learns(records, idx))
  /\ idx' = idx + 1
  /\ UNCHANGED <<inputVars, vicinityVars, cnVars, overlayVars, it, lines, pc>>

\* lines 245-246: leave the loop after a round without change
RoundEnd ==
  /\ pc = "nodes"
  /\ idx \notin nodes
  /\ IF Exits(convergence)
       THEN pc' = "verification" /\ idx' = 1
       ELSE pc' = "round" /\ idx' = idx
  /\ UNCHANGED <<inputVars, vicinityVars, cnVars, overlayVars, records, it, convergence, lines>>

\* ---------------------------------------------------------- verification
\* line 256
SybilAssert(v) == \A s \in records[v] : sybil[s]

AllRecordsWithSybils(v) == {p \in nodes : StartsWith(name[p], Group(v))}

\* lines 261-267: the honest nodes whose name starts with v's group
AllRecords(v) == {p \in nodes : ~sybil[p] /\ StartsWith(name[p], Group(v))}

\* lines 268-269
KnownRecords(v) == {p \in AllRecords(v) : p \in records[v]}

\* line 272, without the rounded ratio
MismatchLine(v) ==
  [node |-> v, group |-> Group(v),
   known |-> Cardinality(KnownRecords(v)), all |-> Cardinality(AllRecords(v))]

\* lines 253-273 for the next node
VerifyNode ==
  /\ pc = "verification"
  /\ idx \in nodes
  /\ IF sybil[idx]
       THEN /\ lines' = lines
            /\ pc' = IF ~SybilAssert(idx) THEN "assert_failed"
                     ELSE IF idx + 1 \in nodes THEN "verification" ELSE "done"
       ELSE /\ lines' = IF Cardinality(KnownRecords(idx)) # Cardinality(AllRecords(idx))
                          THEN lines \cup {MismatchLine(idx)} ELSE lines
            /\ pc' = IF idx + 1 \in nodes THEN "verification" ELSE "done"
  /\ idx' = idx + 1
  /\ UNCHANGED <<inputVars, vicinityVars, cnVars, overlayVars, records, it, convergence>>

\* ------------------------------------------------------------------ specs
\* ordered pairs of distinct nodes
Pairs(S) == {e \in S \X S : e[1] # e[2]}

\* an overlay over S: the gossip reads only which edges exist
Overlays(S) ==
  {[e \in E |-> [hops |-> 1, backlink |-> FALSE]] : E \in SUBSET Pairs(S)}

\* no vicinity construction in progress
VicinityIdle ==
  /\ vicinity_graph = {}
  /\ vc = 0
  /\ vqueue = {}
  /\ vvisited = {}
  /\ vic_node = 1

\* no random walk in progress
WalkIdle ==
  /\ discovered_set = {}
  /\ walk_length = 0
  /\ walks = 0
  /\ wnode = 1
  /\ wvisited = {}
  /\ whops = 0
  /\ foreign_view = <<>>

\* the builder's loop variables once every node is processed
BuilderDone ==
  /\ todo = {}
  /\ local_view = <<>>
  /\ li = 0
  /\ WalkIdle
  /\ views = [v \in nodes |-> {}]

\* the traversal reads the estimate only through cn_size and group_bits
\* (lines 69 and 72): the smallest estimate for each pair of values
CnNHats ==
  {nh \in NHats : \A m \in NHats :
     m < nh => <<CnSize(m), GroupBits(m)>> # <<CnSize(nh), GroupBits(nh)>>}

\* no color-neighbor traversal in progress
CnIdle ==
  /\ cur = 1
  /\ buckets = [k \in BucketKeys(nhat[cur]) |-> <<>>]
  /\ bfs_queue = <<>>
  /\ bfs_visited = {}
  /\ offers = <<>>
  /\ oi = 0

\* lines 222-227
InitGossipState ==
  /\ records = [v \in nodes |-> {v}]
  /\ it = 0
  /\ convergence = TRUE
  /\ idx = 1
  /\ lines = {}
  /\ pc = "round"

\* exact population estimate (n_err = 0.0) and one common name prefix
InitGossip ==
  /\ nodes = 1..MaxNodes
  /\ name = [v \in nodes |-> [i \in 1..NameBits |-> 0]]
  /\ nhat = [v \in nodes |-> MaxNHat]
  /\ sybil \in [nodes -> BOOLEAN]
  /\ trust_topology = Links(nodes)
  /\ CnIdle
  /\ group_graph \in Overlays(nodes)
  /\ BuilderDone
  /\ VicinityIdle
  /\ InitGossipState

\* estimates at the two ends of the error interval (n_err > 0)
InitVerify ==
  /\ nodes = 1..MaxVerifyNodes
  /\ name \in [nodes -> Names]
  /\ nhat \in [nodes -> {MinNHat, MaxNHat}]
  /\ sybil \in [nodes -> BOOLEAN]
  /\ trust_topology = Links(nodes)
  /\ CnIdle
  /\ group_graph \in Overlays(nodes)
  /\ BuilderDone
  /\ VicinityIdle
  /\ InitGossipState

\* the state of the later phases while the proximity index is built
GossipIdle ==
  /\ records = <<>>
  /\ it = 0
  /\ convergence = TRUE
  /\ idx = 1
  /\ lines = {}

\* lines 63-66 for the first node of the loop of line 55 (buckets start
\* empty for every node, so the other nodes' traversals are renamings)
InitCn ==
  /\ nodes = 1..MaxCnNodes
  /\ trust_topology \in TrustGraphs(nodes)
  /\ name \in [nodes -> Names]
  /\ \E nh \in CnNHats : nhat = [v \in nodes |-> nh]
  /\ sybil = [v \in nodes |-> FALSE]
  /\ cur = 1
  /\ buckets = [k \in BucketKeys(nhat[cur]) |-> <<>>]
  /\ bfs_queue = <<cur>>
  /\ bfs_visited = {cur}
  /\ offers = <<>>
  /\ oi = 0
  /\ group_graph = <<>>
  /\ todo = nodes
  /\ local_view = <<>>
  /\ li = 0
  /\ WalkIdle
  /\ views = [v \in nodes |-> {}]
  /\ VicinityIdle
  /\ GossipIdle
  /\ pc = "color_neighbors"

\* lines 68-83 applied to a given list of candidates: candidate i is node
\* i + 1, of any name prefix and at any hop count
InitOffer ==
  /\ nodes = 1..(MaxOffers + 1)
  /\ trust_topology = Links(nodes)
  /\ name \in {nm \in [nodes -> Names] : \A i \in 1..NameBits : nm[1][i] = 0}
  /\ \E nh \in CnNHats : nhat = [v \in nodes |-> nh]
  /\ sybil = [v \in nodes |-> FALSE]
  /\ cur = 1
  /\ buckets = [k \in BucketKeys(nhat[cur]) |-> <<>>]
  /\ bfs_queue = <<>>
  /\ bfs_visited = {}
  /\ \E h \in [1..MaxOffers -> 1..MaxHops] : offers = [i \in 1..MaxOffers |-> <<h[i], i + 1>>]
  /\ oi = 0
  /\ group_graph = <<>>
  /\ todo = nodes
  /\ local_view = <<>>
  /\ li = 0
  /\ WalkIdle
  /\ views = [v \in nodes |-> {}]
  /\ VicinityIdle
  /\ GossipIdle
  /\ pc = "color_neighbors"

\* lines 111-113: the overlay is empty and no node is processed.  Exact
\* population estimate (n_err = 0.0), small or large; the first k nodes carry
\* one name prefix and the others the other one (the trust graph ranges over
\* every labelled graph, so the two groups lie anywhere in it)
InitOverlay ==
  /\ nodes = 1..MaxOverlayNodes
  /\ trust_topology \in TrustGraphs(nodes)
  /\ \E k \in 0..MaxOverlayNodes :
       name = [v \in nodes |-> [i \in 1..NameBits |-> IF v <= k THEN 0 ELSE 1]]
  /\ \E nh \in {MinNHat, MaxNHat} : nhat = [v \in nodes |-> nh]
  /\ sybil = [v \in nodes |-> FALSE]
  /\ CnIdle
  /\ group_graph = <<>>
  /\ todo = nodes
  /\ local_view = <<>>
  /\ li = 0
  /\ WalkIdle
  /\ views = [v \in nodes |-> {}]
  /\ VicinityIdle
  /\ GossipIdle
  /\ pc = "groups"

NextOverlay == GroupsNode \/ GroupLink \/ GroupsEnd

SpecOverlay == InitOverlay /\ [][NextOverlay]_vars

\* add_group_link reads the estimate only through sg_degree (line 174): the
\* smallest estimate for each value of it
FanoutNHats ==
  {nh \in NHats : \A m \in NHats : m < nh => SgDegree(m) # SgDegree(nh)}

\* the overlay builder with n_err > 0 (topologies.py line 44): every node has
\* its own estimate, hence its own sg_degree, vicinity_size and cn_size
InitFanout ==
  /\ nodes = 1..MaxFanoutNodes
  /\ trust_topology \in TrustGraphs(nodes)
  /\ \E k \in 0..MaxFanoutNodes :
       name = [v \in nodes |-> [i \in 1..NameBits |-> IF v <= k THEN 0 ELSE 1]]
  /\ nhat \in [nodes -> FanoutNHats]
  /\ sybil = [v \in nodes |-> FALSE]
  /\ CnIdle
  /\ group_graph = <<>>
  /\ todo = nodes
  /\ local_view = <<>>
  /\ li = 0
  /\ WalkIdle
  /\ views = [v \in nodes |-> {}]
  /\ VicinityIdle
  /\ GossipIdle
  /\ pc = "groups"

SpecFanout == InitFanout /\ [][NextOverlay]_vars

\* the estimates with sg_degree ** 2 <= 1, for which a target is full after
\* one backlink (or none): the smallest one for each vicinity_size
AdmissionNHats ==
  {nh \in NHats :
     /\ SgDegree(nh) <= 1
     /\ \A m \in NHats : m < nh => <<SgDegree(m), VicinitySize(m)>> # <<SgDegree(nh), VicinitySize(nh)>>}

\* the overlay builder on one group (group_bits = 0) with one common estimate
\* of a small sg_degree
InitAdmission ==
  /\ nodes = 1..MaxAdmissionNodes
  /\ trust_topology \in TrustGraphs(nodes)
  /\ name = [v \in nodes |-> [i \in 1..NameBits |-> 0]]
  /\ \E nh \in AdmissionNHats : nhat = [v \in nodes |-> nh]
  /\ sybil = [v \in nodes |-> FALSE]
  /\ CnIdle
  /\ group_graph = <<>>
  /\ todo = nodes
  /\ local_view = <<>>
  /\ li = 0
  /\ WalkIdle
  /\ views = [v \in nodes |-> {}]
  /\ VicinityIdle
  /\ GossipIdle
  /\ pc = "groups"

SpecAdmission == InitAdmission /\ [][NextOverlay]_vars

\* the elements of S in ascending order
Ascending(S) == CHOOSE q \in Perms(S) : \A i, j \in 1..Cardinality(S) : i < j => q[i] < q[j]

\* lines 116-143: the local views a node can build, each with its
\* walk_length; vicinity_graph.neighbors(node) is taken in one order, which
\* the walks do not depend on (the overlay specifications take every order)
ViewsAndLengths(node) ==
  LET group_buckets == GroupBuckets(node)
      vicinities == {Ascending(S) : S \in VicinitySets(node)}
  IN UNION {{<<LocalView(node, vicinity, bucket), WalkLength(MaxHopCount(node, vicinity))>> :
               bucket \in group_buckets} :
            vicinity \in vicinities}

\* line 141 for the first node of the shuffled list: its local view is
\* built, the overlay is still empty.  The node is node 1 and the first k
\* nodes carry one name prefix, the others the other one (one assignment is
\* enough where group_bits = 0 and no name bit is read); the trust graph
\* ranges over every labelled graph, so the node and the two groups lie
\* anywhere in it
InitWalk ==
  /\ nodes = 1..MaxWalkNodes
  /\ trust_topology \in TrustGraphs(nodes)
  /\ \E nh \in {MinNHat, MaxNHat} :
       /\ nhat = [v \in nodes |-> nh]
       /\ \E k \in IF GroupBits(nh) = 0 THEN {0} ELSE 0..MaxWalkNodes :
            name = [v \in nodes |-> [i \in 1..NameBits |-> IF v <= k THEN 0 ELSE 1]]
  /\ sybil = [v \in nodes |-> FALSE]
  /\ CnIdle
  /\ group_graph = <<>>
  /\ todo = nodes \ {cur}
  /\ \E view \in ViewsAndLengths(cur) :
       /\ local_view = view[1]
       /\ walk_length = view[2]
  /\ li = 0
  /\ views = [v \in nodes |-> IF v = cur THEN {e[2] : e \in Range(local_view)} ELSE {}]
  /\ discovered_set = {cur} \cup views[cur]
  /\ walks = 0
  /\ wnode = cur
  /\ wvisited = {}
  /\ whops = 0
  /\ foreign_view = <<>>
  /\ VicinityIdle
  /\ GossipIdle
  /\ pc = "walk"

NextWalk == WalkStart \/ WalkStep \/ WalkOver \/ WalksEnd \/ GroupLink \/ FarNeighbors

SpecWalk == InitWalk /\ [][NextWalk]_vars

\* the walks can spin only in the redraw of lines 162-165
SpecWalkFair == InitWalk /\ [][NextWalk]_vars /\ WF_vars(NextWalk)

\* lines 91-93 for the first node of the loop of line 55, in any trust graph
\* (generate_topology joins the communities only by the connections given)
InitVicinity ==
  /\ nodes = 1..MaxVicinityNodes
  /\ trust_topology \in SUBSET Links(nodes)
  /\ name = [v \in nodes |-> [i \in 1..NameBits |-> 0]]
  /\ \E nh \in NHats : nhat = [v \in nodes |-> nh]
  /\ sybil = [v \in nodes |-> FALSE]
  /\ CnIdle
  /\ vicinity_graph = {}
  /\ vc = 0
  /\ vqueue = {cur}
  /\ vvisited = {cur}
  /\ vic_node = cur
  /\ group_graph = <<>>
  /\ todo = nodes
  /\ local_view = <<>>
  /\ li = 0
  /\ views = [v \in nodes |-> {}]
  /\ WalkIdle
  /\ GossipIdle
  /\ pc = "vicinity"

NextVicinity == VicinityPop \/ VicinityScan \/ VicinityScanEnd \/ VicinityEnd

SpecVicinity == InitVicinity /\ [][NextVicinity]_vars

NextCn == CnVisit \/ CnEnd

NextOffer == OfferNext \/ OfferEnd

SpecCn == InitCn /\ [][NextCn]_vars

SpecOffer == InitOffer /\ [][NextOffer]_vars

NextGossip == RoundStart \/ GossipNode \/ RoundEnd \/ VerifyNode

SpecGossip == InitGossip /\ [][NextGossip]_vars

SpecGossipFair == InitGossip /\ [][NextGossip]_vars /\ WF_vars(NextGossip)

SpecVerify == InitVerify /\ [][NextGossip]_vars

\* ---------------------------------------------------------------- claims
\* lines 232-243 executed for the nodes u, u+1, ... in order: the rest of a round
RECURSIVE RoundFrom(_, _)
RoundFrom(recs, u) ==
  IF u \notin nodes THEN recs ELSE RoundFrom(Propagate(recs, u), u + 1)

\* lines 232-243: one full gossip round
GossipRound(recs) == RoundFrom(recs, 1)

Edges == DOMAIN group_graph

AfterGossip == pc \in {"verification", "done", "assert_failed"}

\* C1: in every state of the dissemination and of the verification, the
\* record set of every Sybil node holds only ids of Sybil nodes, and the
\* verifier's assertion on Sybil record sets never fails.
SybilContainment ==
  /\ \A v \in nodes : sybil[v] => \A r \in records[v] : sybil[r]
  /\ pc # "assert_failed"

\* C1 witness: the run is over, an honest node that has learned a record has
\* an overlay edge to a Sybil node, and that Sybil node has learned a record.
SybilContainmentWitness ==
  /\ pc = "done"
  /\ \E h \in nodes, s \in nodes :
       /\ ~sybil[h] /\ sybil[s] /\ <<h, s>> \in Edges
       /\ Cardinality(records[h]) >= 2 /\ Cardinality(records[s]) >= 2

\* C2: the gossip loop eventually completes a round in which no record set
\* changed and leaves the loop.
GossipTerminates == <>(pc = "verification" /\ convergence)

\* C2 witness: the loop is left after three or more rounds.
GossipTerminatesWitness == pc = "verification" /\ it >= 3

ScenarioA ==
  /\ \A v \in nodes : ~sybil[v]
  /\ \A u \in nodes, v \in nodes : Group(u) = Group(v)
  /\ Edges = Pairs(nodes)

\* C3 (Scenario A): no Sybil node, one common group prefix and an overlay
\* edge between every ordered pair of nodes: once the gossip has converged
\* every record set holds every node, and no mismatch line is printed.
ScenarioAHolds ==
  ScenarioA =>
    /\ pc # "assert_failed"
    /\ lines = {}
    /\ AfterGossip => \A v \in nodes : records[v] = nodes

\* C3 witness: Scenario A has run to the end.
ScenarioAWitness == ScenarioA /\ pc = "done"

\* h is honest and adjacent in the overlay to exactly the Sybil nodes s1 and
\* s2, which are linked to each other in both directions
ScenarioB(h, s1, s2) ==
  /\ ~sybil[h] /\ sybil[s1] /\ sybil[s2] /\ s1 # s2
  /\ <<s1, s2>> \in Edges /\ <<s2, s1>> \in Edges
  /\ \A x \in nodes \ {h} :
       (<<h, x>> \in Edges \/ <<x, h>> \in Edges) <=> x \in {s1, s2}

\* C4 as stated (Scenario B): after convergence the honest node's record
\* set is exactly {itself} and the Sybil assertion passes.
ScenarioBOriginal ==
  \A h \in nodes, s1 \in nodes, s2 \in nodes :
    ScenarioB(h, s1, s2) =>
      /\ pc # "assert_failed"
      /\ AfterGossip => records[h] = {h}

\* C4 as amended: in Scenario B the Sybil assertion passes and, after
\* convergence, the honest node knows no honest id but its own; its record
\* set is exactly {itself} when neither Sybil node has an overlay edge to
\* it, and holds both Sybil ids as soon as one of them has.
ScenarioBAmended ==
  \A h \in nodes, s1 \in nodes, s2 \in nodes :
    ScenarioB(h, s1, s2) =>
      /\ pc # "assert_failed"
      /\ AfterGossip =>
           /\ \A r \in records[h] : r = h \/ sybil[r]
           /\ IF <<s1, h>> \in Edges \/ <<s2, h>> \in Edges
                THEN {h, s1, s2} \subseteq records[h]
                ELSE records[h] = {h}

\* C4 witness: Scenario B has run to the end and the honest node has
\* learned both Sybil ids.
ScenarioBWitness ==
  /\ pc = "done"
  /\ \E h \in nodes, s1 \in nodes, s2 \in nodes :
       ScenarioB(h, s1, s2) /\ {s1, s2} \subseteq records[h]

\* C7: every record set starts as {own id}, and no step removes an id from
\* a record set (so each set always holds its node's own id).
RecordsOnlyGrow ==
  /\ \A v \in nodes : records[v] = {v}
  /\ [][\A v \in nodes : records[v] \subseteq records'[v] /\ v \in records'[v]]_vars

\* C7 witness: some record set has grown to three ids.
RecordsOnlyGrowWitness ==
  pc = "done" /\ \E v \in nodes : Cardinality(records[v]) >= 3

\* C8: once the loop is left, one more full gossip round over the record
\* sets changes none of them and finds nothing to learn at any node, so a
\* second run of the loop converges in its first round.
GossipIdempotent ==
  AfterGossip =>
    /\ GossipRound(records) = records
    /\ \A u \in nodes : ~Learns(records, u)

\* C8 witness: the loop is left after more than one round with a record set
\* that has grown.
GossipIdempotentWitness ==
  /\ pc = "verification" /\ it >= 2
  /\ \E v \in nodes : records[v] # {v}

\* the verifier's sets as C10 states them: group prefixes compared for equality
AllByGroupEquality(v) == {m \in nodes : ~sybil[m] /\ Group(m) = Group(v)}

\* the verifier's sets as the code computes them: m's name begins with v's group
AllByNamePrefix(v) ==
  {m \in nodes : ~sybil[m] /\ Prefix(name[m], Len(Group(v))) = Group(v)}

LinesOf(v) == {l \in lines : l.node = v}

\* C10 as stated: at the end of the verification a mismatch line exists for
\* an honest node v iff known # all, where all = the honest nodes whose
\* group prefix equals v's; it carries |known| and |all|; Sybil nodes get
\* no line.
VerifierOriginal ==
  pc = "done" =>
    \A v \in nodes :
      IF sybil[v] THEN LinesOf(v) = {}
      ELSE LET all == AllByGroupEquality(v)
               known == all \cap records[v]
           IN /\ (LinesOf(v) # {}) <=> (known # all)
              /\ \A l \in LinesOf(v) :
                   l.known = Cardinality(known) /\ l.all = Cardinality(all)

\* C10 as amended: the same with all = the honest nodes whose name starts
\* with v's group prefix (group prefixes of different lengths are never
\* equal, yet such a node is counted when its name begins with v's prefix).
VerifierAmended ==
  pc = "done" =>
    \A v \in nodes :
      IF sybil[v] THEN LinesOf(v) = {}
      ELSE LET all == AllByNamePrefix(v)
               known == all \cap records[v]
           IN /\ (LinesOf(v) # {}) <=> (known # all)
              /\ \A l \in LinesOf(v) :
                   l.known = Cardinality(known) /\ l.all = Cardinality(all)

\* C10 witness: a mismatch line was printed for an honest node whose group
\* is a proper prefix of the group of an honest node it does not know.
VerifierWitness ==
  /\ pc = "done"
  /\ \E v \in nodes, m \in nodes :
       /\ ~sybil[v] /\ ~sybil[m] /\ LinesOf(v) # {}
       /\ m \in AllByNamePrefix(v) \ AllByGroupEquality(v)
       /\ m \notin records[v]

\* the candidates of nx.bfs_edges processed so far whose bucket key is k
Processed(k) == {v \in bfs_visited \ {cur} : BucketKey(v) = k}

\* C5: at every point of the color-neighbor construction of a node, and at
\* its end, each of its buckets holds at most cn_size entries.
BucketBound ==
  \A k \in DOMAIN buckets : Len(buckets[k]) <= CnSize(nhat[cur])

\* C5 witness: the traversal is over, and some bucket is full although more
\* candidates with its key were processed than it can hold.
BucketBoundWitness ==
  /\ pc = "cn_done"
  /\ \E k \in DOMAIN buckets :
       /\ Len(buckets[k]) = CnSize(nhat[cur])
       /\ Cardinality(Processed(k)) > CnSize(nhat[cur])
       /\ CnSize(nhat[cur]) >= 1

\* the hop counts of the first Len(h) candidates of the given list are h
OffersBegin(h) ==
  /\ Len(offers) >= Len(h)
  /\ \A i \in 1..Len(h) : offers[i][1] = h[i]

\* the hop counts in the one bucket of cur, as a list
BucketHops ==
  LET b == buckets[BucketKey(cur)] IN [i \in 1..Len(b) |-> b[i][1]]

\* the entries of the one bucket of cur
BucketEntries ==
  LET b == buckets[BucketKey(cur)] IN {b[i] : i \in 1..Len(b)}

\* Scenario C: capacity 2 and candidates offered with hops 1, 2, 3, 1, 2
ScenarioC ==
  /\ CnSize(nhat[cur]) = 2
  /\ OffersBegin(<<1, 2, 3, 1, 2>>)
  /\ \A i \in 1..5 : BucketKey(offers[i][2]) = BucketKey(cur)

Incoming(v) == {e \in DOMAIN group_graph : e[2] = v /\ group_graph[e].backlink}

\* C6: at every point of the overlay construction, for every node the number
\* of backlink edges that terminate at the node is at most sg_degree ** 2.
IncomingBacklinkBound ==
  \A v \in nodes : Cardinality(Incoming(v)) <= SgDegree(nhat[v]) * SgDegree(nhat[v])

\* C6 as the code has it: at every point of the construction, for every node
\* the number of backlink edges that start at the node is at most
\* sg_degree ** 2 (one common estimate); the backlink edges that terminate at
\* a node are as many as the entries of its local view at most, and those are
\* at most vicinity_size + cn_size.
OutgoingBacklinkBound ==
  \A v \in nodes :
    /\ Cardinality(Outgoing(group_graph, v)) <= SgDegree(nhat[v]) * SgDegree(nhat[v])
    /\ Cardinality(Incoming(v)) <= Cardinality(views[v])
    /\ Cardinality(views[v]) <= VicinitySize(nhat[v]) + CnSize(nhat[v])

\* C6 witness: the construction is over, some node holds sg_degree ** 2
\* backlinks and has not kept the one a node with it in its local view asked
\* for, and more than sg_degree ** 2 backlinks terminate at some node.
OutgoingBacklinkBoundWitness ==
  /\ pc = "groups_done"
  /\ \E t \in nodes, w \in nodes :
       /\ t \in views[w]
       /\ Cardinality(Outgoing(group_graph, t)) = SgDegree(nhat[t]) * SgDegree(nhat[t])
       /\ <<t, w>> \notin Outgoing(group_graph, t)
  /\ \E v \in nodes : Cardinality(Incoming(v)) > SgDegree(nhat[v]) * SgDegree(nhat[v])

\* one round in which every node forwards the records it held when the round
\* began (the forwarding rule of lines 235-243 on a frozen copy of records)
BarrierRound(recs) ==
  [w \in nodes |->
     recs[w] \cup UNION {recs[u] : u \in {x \in nodes : w \in Successors(x) /\ ~Skips(x, w)}}]

\* the record sets that k such rounds leave, from the sets of lines 223-225
RECURSIVE BarrierRounds(_)
BarrierRounds(k) ==
  IF k = 0 THEN [v \in nodes |-> {v}] ELSE BarrierRound(BarrierRounds(k - 1))

\* C11: within a gossip round the records a node forwards are those it held
\* at the end of the previous round, so after `it` rounds of the loop the
\* record sets are those that `it` rounds on frozen sets leave.
RoundBarrier ==
  (pc \in {"round", "verification"}) => records = BarrierRounds(it)

\* the overlay that the calls of line 182 for the local view of the first
\* processed node build: an edge to every entry and a backlink from it
LocalViewGraph ==
  [e \in {<<cur, t>> : t \in views[cur]} \cup {<<t, cur>> : t \in views[cur]} |->
     [hops |-> Dist(e[1], e[2]), backlink |-> (e[2] = cur)]]

\* C12: add_group_link is called for the entries of the local view only,
\* never for a foreign-view candidate: when the node is done the overlay is
\* the one its local view gives, whatever the random walks discovered.
WalksNotWired == (pc = "node_done") => group_graph = LocalViewGraph

\* C12 witness: the node is done, its local view was linked and its random
\* walks have discovered candidates.
WalksNotWiredWitness ==
  pc = "node_done" /\ local_view # <<>> /\ foreign_view # <<>>

\* the hop counts of a bucket in increasing order (its multiset of hops)
HopsOf(bucket) == SortSeq([i \in 1..Len(bucket) |-> bucket[i][1]], LAMBDA a, b : a < b)

\* the given candidates come as a breadth-first traversal yields them: hop
\* counts start at 1 and grow by at most one from a candidate to the next
BfsOrder ==
  /\ offers # <<>>
  /\ offers[1][1] = 1
  /\ \A i \in 1..(Len(offers) - 1) :
       offers[i + 1][1] \in {offers[i][1], offers[i][1] + 1}

\* lines 67-83 without the break of line 83, for the candidates from the
\* i-th on: the traversal run to its end
RECURSIVE RunToEnd(_, _)
RunToEnd(b, i) ==
  IF i > Len(offers) THEN b
  ELSE LET key == BucketKey(offers[i][2])
           r == OfferNoBreak(b[key], CnSize(nhat[cur]), offers[i][1], offers[i][2], FALSE)
       IN RunToEnd([b EXCEPT ![key] = r.bucket], i + 1)

\* C13: the early termination is only an optimisation: for every prefix, the
\* multiset of hop counts of the final bucket is the one that the same
\* traversal gives when it is run to the end without the break.
BreakIsOptimisation ==
  (pc = "cn_done" /\ BfsOrder) =>
    \A k \in DOMAIN buckets :
      HopsOf(buckets[k]) = HopsOf(RunToEnd([j \in DOMAIN buckets |-> <<>>], 1)[k])

\* the entries of a bucket of cur
EntriesOf(k) == Range(buckets[k])

\* C14: during the color-neighbor traversal, after each processed candidate
\* every bucket holds min(cn_size, k) of the k candidates of its prefix
\* processed so far, with their hop counts, and none of them is farther than
\* a processed candidate it does not hold; and a step that changes the
\* entries of a full bucket removes an entry of the largest hop count for a
\* candidate that is not farther.
LowestHops ==
  /\ [](\A k \in DOMAIN buckets :
          /\ EntriesOf(k) \subseteq {<<Dist(cur, v), v>> : v \in Processed(k)}
          /\ Len(buckets[k]) = Min(CnSize(nhat[cur]), Cardinality(Processed(k)))
          /\ Cardinality(EntriesOf(k)) = Len(buckets[k])
          /\ \A e \in EntriesOf(k), v \in Processed(k) :
               <<Dist(cur, v), v>> \notin EntriesOf(k) => e[1] <= Dist(cur, v))
  /\ [][\A k \in DOMAIN buckets :
          (Len(buckets[k]) = CnSize(nhat[cur]) /\ EntriesOf(k)' # EntriesOf(k)) =>
            \E old \in EntriesOf(k), new \in EntriesOf(k)' :
              /\ EntriesOf(k)' = (EntriesOf(k) \ {old}) \cup {new}
              /\ \A e \in EntriesOf(k) : e[1] <= old[1]
              /\ new[1] <= old[1]]_vars

\* C14 witness: the traversal is over, and a full bucket has left out a
\* processed candidate of its prefix that is as far as one it holds.
LowestHopsWitness ==
  /\ pc = "cn_done"
  /\ \E k \in DOMAIN buckets :
       /\ CnSize(nhat[cur]) >= 1
       /\ Len(buckets[k]) = CnSize(nhat[cur])
       /\ \E e \in EntriesOf(k), v \in Processed(k) :
            /\ <<Dist(cur, v), v>> \notin EntriesOf(k)
            /\ Dist(cur, v) = e[1]

\* the nodes other than v that v reaches in the trust graph
Reachable(v) == Reach(trust_topology, nodes, {v}) \ {v}

\* C15: the vicinity of a node never holds more than vicinity_size nodes nor
\* the node itself, its counter counts its distinct edges, and when the
\* construction ends it holds exactly min(vicinity_size, number of nodes the
\* node reaches) nodes, for every outcome of the shuffles.
VicinityBound ==
  /\ Cardinality(vicinity_graph) <= VicinitySize(nhat[cur])
  /\ cur \notin vicinity_graph
  /\ vc = Cardinality(vicinity_graph)
  /\ vicinity_graph \subseteq Reachable(cur)
  /\ pc = "vicinity_done" =>
       Cardinality(vicinity_graph) = Min(VicinitySize(nhat[cur]), Cardinality(Reachable(cur)))

\* C15 witness: the construction has ended with a full vicinity, with nodes
\* in reach left out and a node in it that is no trust neighbor of the node.
VicinityBoundWitness ==
  /\ pc = "vicinity_done"
  /\ Cardinality(vicinity_graph) = VicinitySize(nhat[cur])
  /\ Reachable(cur) \ vicinity_graph # {}
  /\ vicinity_graph \ Neighbors(cur) # {}

OutEdges(g, t) == [e \in {f \in DOMAIN g : f[1] = t} |-> g[e]]

\* the largest hops among the outgoing backlinks of t
MaxBacklinkHops(g, t) ==
  CHOOSE h \in {g[e].hops : e \in Outgoing(g, t)} :
    \A e \in Outgoing(g, t) : g[e].hops <= h

\* C17: when add_group_link(v, target, hops) finds the target with
\* sg_degree ** 2 outgoing backlinks, then if hops is strictly smaller than
\* the largest hops among them exactly one backlink with that largest hops
\* is removed and target -> v becomes a backlink (every other edge out of
\* the target stays as it is); otherwise the edges out of the target and
\* their flags are unchanged.
AdmissionOnFull ==
  [][(pc = "groups" /\ li < Len(local_view)) =>
      LET hops == local_view[li + 1][1]
          t == local_view[li + 1][2]
          back == Outgoing(group_graph, t)
      IN Cardinality(back) = SgDegree(nhat[t]) * SgDegree(nhat[t]) =>
           IF back # {} /\ hops < MaxBacklinkHops(group_graph, t)
             THEN \E e \in back :
                    /\ group_graph[e].hops = MaxBacklinkHops(group_graph, t)
                    /\ Outgoing(group_graph', t) = (back \ {e}) \cup {<<t, cur>>}
                    /\ group_graph'[<<t, cur>>] = [hops |-> hops, backlink |-> TRUE]
                    /\ DOMAIN OutEdges(group_graph', t) =
                         (DOMAIN OutEdges(group_graph, t) \ {e}) \cup {<<t, cur>>}
                    /\ \A f \in DOMAIN OutEdges(group_graph', t) \ {<<t, cur>>} :
                         group_graph'[f] = group_graph[f]
           ELSE OutEdges(group_graph', t) = OutEdges(group_graph, t)]_vars

\* C17 witness: the node being processed has just obtained the backlink of a
\* full target that is itself still to be processed, and the backlink the
\* target held towards a farther node processed earlier is gone.
AdmissionOnFullWitness ==
  /\ pc = "groups"
  /\ li >= 1
  /\ LET hops == local_view[li][1]
         t == local_view[li][2]
     IN /\ t \in todo
        /\ <<t, cur>> \in Outgoing(group_graph, t)
        /\ Cardinality(Outgoing(group_graph, t)) = SgDegree(nhat[t]) * SgDegree(nhat[t])
        /\ \E w \in nodes \ (todo \cup {cur}) :
             /\ t \in views[w]
             /\ Dist(w, t) > hops
             /\ <<t, w>> \notin DOMAIN group_graph

\* the nodes whose local view has been linked entirely
Linked == {v \in nodes \ todo : v = cur => li = Len(local_view)}

\* C18: once a node's local view has been linked, and still when every node
\* has been processed, the overlay holds for every node of that local view
\* the edge node -> target with backlink = False; no later backlink
\* insertion or eviction removes or re-flags it.
ForwardLinksPersist ==
  \A v \in Linked : \A target \in views[v] :
    /\ <<v, target>> \in DOMAIN group_graph
    /\ ~group_graph[<<v, target>>].backlink

\* the largest hop count among the entries of the local view (0 if empty)
MaxViewHop ==
  LET hops == {local_view[i][1] : i \in 1..Len(local_view)}
  IN IF hops = {} THEN 0 ELSE CHOOSE h \in hops : \A g \in hops : g <= h

\* the moves the current walk has made: it visits a new node with each
Moves == Cardinality(wvisited \cup {wnode}) - 1

\* C19: a random walk makes at most round(1.5 * max_hop) moves along trust
\* edges, max_hop being the largest hop count of the local view; when that
\* length is 0 the walk examines no node and the foreign view stays empty.
WalkLengthBound ==
  /\ Moves <= WalkLength(MaxViewHop)
  /\ WalkLength(MaxViewHop) = 0 => wvisited = {} /\ foreign_view = <<>>

\* C20: within one walk no node is visited twice (the walk only moves along
\* a trust edge to a node it has not visited), a walk whose current node has
\* no unvisited neighbor stops at once, and no walk makes more than |V|
\* moves; with a fair draw of line 163 every walk that has started ends.
WalkTerminates ==
  /\ [](/\ pc = "walking" => wnode \notin wvisited
        /\ Moves <= Cardinality(nodes))
  /\ [][pc = "walking" /\ WalkGoesOn(whops, walk_length) =>
          /\ wvisited' = wvisited \cup {wnode}
          /\ Cardinality(wvisited') = Cardinality(wvisited) + 1
          /\ IF Neighbors(wnode) \subseteq wvisited'
               THEN pc' = "walk" /\ wnode' = wnode
               ELSE /\ pc' = "walking"
                    /\ {wnode, wnode'} \in trust_topology
                    /\ wnode' \notin wvisited']_vars
  /\ (pc = "walking") ~> (pc = "walk")

\* C20 witness: a walk of two moves or more has stopped at a node without
\* unvisited neighbors while other nodes were never visited.
WalkTerminatesWitness ==
  /\ pc = "walk"
  /\ walks >= 1
  /\ Moves >= 2
  /\ Neighbors(wnode) \subseteq wvisited
  /\ wvisited # nodes

\* the overlay edges the forwarding rule of line 237 lets records cross:
\* all but those from an honest node into a Sybil node
Forwarding == {e \in Edges : ~(~sybil[e[1]] /\ sybil[e[2]])}

\* C21: the gossip loop is left only at the end of a complete round in
\* which no record was added (a step that adds a record clears the
\* convergence flag for the rest of the round), and from then on every
\* overlay edge u -> w except those from an honest u into a Sybil w has
\* records[u] within records[w], edges from a Sybil into an honest node
\* included; the turn of an honest node never changes the record set of a
\* Sybil successor.
ExitMeansClosure ==
  /\ [](AfterGossip =>
          /\ convergence
          /\ \A e \in Forwarding : records[e[1]] \subseteq records[e[2]])
  /\ [][/\ (pc = "nodes" /\ records' # records) => ~convergence'
        /\ (pc = "nodes" /\ ~convergence) => (~convergence' /\ pc' # "verification")
        /\ (pc = "nodes" /\ pc' = "verification") => idx \notin nodes
        /\ (pc = "nodes" /\ idx \in nodes /\ ~sybil[idx]) =>
             \A w \in Successors(idx) : sybil[w] => records'[w] = records[w]]_vars

\* C21 witness: the loop is left after two rounds or more; a Sybil node
\* that has learned a record has an edge to an honest node, and an honest
\* node has an edge to a Sybil node that lacks the honest node's id.
ExitMeansClosureWitness ==
  /\ pc = "verification"
  /\ it >= 2
  /\ \E e \in Edges :
       sybil[e[1]] /\ ~sybil[e[2]] /\ Cardinality(records[e[1]]) >= 2
  /\ \E e \in Edges :
       ~sybil[e[1]] /\ sybil[e[2]] /\ e[1] \notin records[e[2]]

\* the nodes that a in S reach along at most k forwarding edges
RECURSIVE Within(_, _)
Within(S, k) ==
  IF k = 0 THEN S
  ELSE LET near == Within(S, k - 1)
       IN near \cup {e[2] : e \in {f \in Forwarding : f[1] \in near}}

\* the largest finite length of a shortest overlay path without an edge
\* from an honest node into a Sybil node
Diameter ==
  CHOOSE d \in 0..Cardinality(nodes) :
    /\ \A a \in nodes : Within({a}, d + 1) = Within({a}, d)
    /\ d > 0 => \E a \in nodes : Within({a}, d) # Within({a}, d - 1)

\* C22: the round counter never exceeds D + 1, D being the largest finite
\* length of a shortest overlay path without an edge from an honest node
\* into a Sybil node, and hence never exceeds the number of nodes.
RoundCountBound ==
  /\ it > 1 => it <= Diameter + 1
  /\ it <= Cardinality(nodes)

\* C22 witness: the loop is left after exactly D + 1 rounds with D >= 2.
RoundCountBoundWitness ==
  /\ pc = "verification"
  /\ Diameter >= 2
  /\ it = Diameter + 1

\* C23: for every estimate n_hat > 1, the estimates with cn_size = 0 and
\* sg_degree = 0 included, the color-neighbor construction and the backlink
\* admission run without an error: neither bucket[-1] nor outgoing[-1] is
\* read on an empty list.
NoIndexError == pc # "index_error"

\* the nodes with a path of at most k forwarding edges to a node of S
RECURSIVE Before(_, _)
Before(S, k) ==
  IF k = 0 THEN S
  ELSE LET near == Before(S, k - 1)
       IN near \cup {e[1] : e \in {f \in Forwarding : f[2] \in near}}

\* the nodes with a forwarding path (of length >= 0) to v
Sources(v) == Before({v}, Cardinality(nodes) - 1)

\* C24: once the loop is left, the record set of every node is exactly the
\* set of nodes with an overlay path to it that has no edge from an honest
\* node into a Sybil node (so an honest node knows the id of a Sybil
\* overlay predecessor).
FixedPoint ==
  AfterGossip => \A v \in nodes : records[v] = Sources(v)

\* C24 witness: the loop is left; an honest node holds the id of a Sybil
\* predecessor, a node holds the id of a node that is not its predecessor,
\* and a node lacks the id of one of its predecessors.
FixedPointWitness ==
  /\ pc = "verification"
  /\ \E e \in Edges : sybil[e[1]] /\ ~sybil[e[2]] /\ e[1] \in records[e[2]]
  /\ \E v \in nodes : \E u \in records[v] \ {v} : <<u, v>> \notin Edges
  /\ \E e \in Edges : e[1] \notin records[e[2]]

\* lines 234-243 for node u on the overlay g
PropagateOn(g, recs, u) ==
  [w \in nodes |-> IF <<u, w>> \in DOMAIN g /\ ~Skips(u, w)
                     THEN recs[w] \cup recs[u] ELSE recs[w]]

\* lines 232-243 on the overlay g: one round, from node u on
RECURSIVE RoundOn(_, _, _)
RoundOn(g, recs, u) ==
  IF u \notin nodes THEN recs ELSE RoundOn(g, PropagateOn(g, recs, u), u + 1)

\* lines 228-246 on the overlay g: rounds until one changes nothing
RECURSIVE RunOn(_, _)
RunOn(g, recs) ==
  LET after == RoundOn(g, recs, 1)
  IN IF after = recs THEN recs ELSE RunOn(g, after)

\* the honest ids in a record set
HonestIn(recs, v) == {p \in recs[v] : ~sybil[p]}

\* lines 253-273 on the record sets recs: the mismatch lines printed
LinesOn(recs) ==
  {[node |-> v, group |-> Group(v),
    known |-> Cardinality(AllRecords(v) \cap recs[v]), all |-> Cardinality(AllRecords(v))] :
     v \in {x \in nodes : ~sybil[x] /\ ~(AllRecords(x) \subseteq recs[x])}}

\* the overlays that differ from the program's in one edge incident to a
\* Sybil node (any two overlays with the same edges between honest nodes
\* are joined by a chain of such changes)
Twins ==
  {[e \in E |-> [hops |-> 1, backlink |-> FALSE]] :
     E \in {(Edges \ {p}) \cup ({p} \ Edges) : p \in {q \in Pairs(nodes) : sybil[q[1]] \/ sybil[q[2]]}}}

\* C25: the program's gossip on an overlay that differs only in an edge
\* incident to a Sybil node leaves every honest node with the same honest
\* ids, and the verifier then prints the same mismatch lines.
SybilNonInterference ==
  /\ pc = "verification" => records = RunOn(group_graph, [v \in nodes |-> {v}])
  /\ pc = "done" =>
       /\ lines = LinesOn(records)
       /\ \A g \in Twins :
            LET twin == RunOn(g, [v \in nodes |-> {v}])
            IN /\ \A v \in nodes : ~sybil[v] => HonestIn(twin, v) = HonestIn(records, v)
               /\ LinesOn(twin) = lines

\* C25 witness: the run is over; a Sybil node lies on an overlay path
\* between two honest nodes that have no edge between them, a mismatch line
\* is printed, and some honest node has learned an honest id.
SybilNonInterferenceWitness ==
  /\ pc = "done"
  /\ lines # {}
  /\ \E a \in nodes, s \in nodes, b \in nodes :
       /\ ~sybil[a] /\ sybil[s] /\ ~sybil[b] /\ a # b
       /\ <<a, s>> \in Edges /\ <<s, b>> \in Edges /\ <<a, b>> \notin Edges
  /\ \E v \in nodes : ~sybil[v] /\ HonestIn(records, v) # {v}

\* the record sets a round-synchronised gossip ends with: rounds on frozen
\* sets until one changes nothing
RECURSIVE SyncFix(_)
SyncFix(recs) ==
  LET after == BarrierRound(recs)
  IN IF after = recs THEN recs ELSE SyncFix(after)

\* lines 232-243 with the nodes taken in the order q, from its i-th on
RECURSIVE RoundIn(_, _, _)
RoundIn(recs, q, i) ==
  IF i > Len(q) THEN recs ELSE RoundIn(Propagate(recs, q[i]), q, i + 1)

\* lines 228-246 with the nodes taken in the order q
RECURSIVE RunIn(_, _)
RunIn(recs, q) ==
  LET after == RoundIn(recs, q, 1)
  IN IF after = recs THEN recs ELSE RunIn(after, q)

\* C26: when the loop is left, the record sets that the in-place rounds
\* produced are those a round-synchronised gossip ends with on the same
\* overlay, and those the in-place rounds end with for every other
\* iteration order of the nodes.
InPlaceReachesSyncFix ==
  (pc = "verification" /\ idx = 1) =>
    /\ records = SyncFix([v \in nodes |-> {v}])
    /\ \A q \in Perms(nodes) : RunIn([v \in nodes |-> {v}], q) = records

\* C26 witness: the loop is left after rounds that taught a record, and the
\* synchronised gossip has not reached these record sets after as many
\* rounds as the in-place one needed to fill them.
InPlaceReachesSyncFixWitness ==
  /\ pc = "verification"
  /\ it >= 2
  /\ BarrierRounds(it - 1) # records

\* C27: at every point of the overlay construction, an overlay edge w -> v
\* that carries backlink = True has its reverse edge v -> w in the overlay,
\* and that edge carries backlink = False.
BacklinksReciprocated ==
  \A e \in DOMAIN group_graph :
    group_graph[e].backlink =>
      /\ <<e[2], e[1]>> \in DOMAIN group_graph
      /\ ~group_graph[<<e[2], e[1]>>].backlink

\* C27 witness: the construction is over; a backlink has been refused or
\* evicted (a node's local view holds a target without an edge back), and two
\* nodes that hold each other in their local views are joined by a backlink
\* one way and a forward link the other way.
BacklinksReciprocatedWitness ==
  /\ pc = "groups_done"
  /\ \E v \in nodes : \E t \in views[v] :
       <<t, v>> \notin DOMAIN group_graph /\ Dist(v, t) >= 2
  /\ \E v \in nodes : \E t \in views[v] :
       v \in views[t] /\ group_graph[<<v, t>>].backlink

\* C28: when every node has been processed, for every node v and every
\* target of v's local view the overlay holds the edge v -> target or the
\* edge target -> v.
AdjacencySurvives ==
  pc = "groups_done" =>
    \A v \in nodes : \A target \in views[v] :
      <<v, target>> \in DOMAIN group_graph \/ <<target, v>> \in DOMAIN group_graph


\* C28 witness: every node has been processed and the forward link of some
\* node to a target of its local view has been evicted.
AdjacencySurvivesWitness ==
  /\ pc = "groups_done"
  /\ \E v \in nodes : \E target \in views[v] : <<v, target>> \notin DOMAIN group_graph

\* the targets of a list of (hops, node) entries, in its order
Targets(view) == [i \in 1..Len(view) |-> view[i][2]]

\* q holds no element twice
NoDuplicates(q) == \A i, j \in 1..Len(q) : i # j => q[i] # q[j]

CountsWellDefined ==
  /\ \A v \in nodes :
       ~sybil[v] =>
         /\ v \in KnownRecords(v)
         /\ Cardinality(AllRecords(v)) >= 1
         /\ Cardinality(KnownRecords(v)) >= 1
         /\ Cardinality(KnownRecords(v)) <= Cardinality(AllRecords(v))
  /\ \A l \in lines : l.all >= 1 /\ l.known >= 1 /\ l.known < l.all

\* C30 witness: the verification is over; a line was printed for an honest
\* node that knows only itself among two, and another honest node knows
\* all of its two.
CountsWellDefinedWitness ==
  /\ pc = "done"
  /\ \E l \in lines : l.known = 1 /\ l.all = 2
  /\ \E v \in nodes :
       ~sybil[v] /\ Cardinality(KnownRecords(v)) = 2 /\ Cardinality(AllRecords(v)) = 2
====
